---- MODULE Spec2Model ----
(***************************************************************************)
(* RunLineJS: the race overlay compositor (src/src/overlay.ts).            *)
(*                                                                         *)
(* Numbers.  The program computes with IEEE doubles; the model uses fixed  *)
(* point with three decimals: lengths are in millimetres (1.22 m = 1220),  *)
(* opacity and scale are in thousandths (1 = 1000), animation progress and *)
(* the eased fraction are in thousandths, rounded down.  Rotations are in  *)
(* quarter turns (-Math.PI / 2 = -1).  Time is in milliseconds.            *)
(*                                                                         *)
(* A ranking card is the THREE.Mesh that createLabel returns.  The text    *)
(* drawn on its texture (rank, name, time) is not part of the state; the   *)
(* style the panel was drawn with and the image region are.  createLabel   *)
(* is modelled for a host whose 2D canvas context is available.  A mesh    *)
(* also records the reveal mode it was shown with (shownWith), which the   *)
(* program does not store.                                                 *)
(***************************************************************************)
EXTENDS Integers, Sequences, FiniteSets, TLC

(***************************************************************************)
(* Bounds of the model.                                                    *)
(***************************************************************************)
\* Meshes created by showRank in one behaviour.
MaxCards == 2
\* The clock advances at most this many times, by ClockStep ms each time.
MaxClockSteps == 2
ClockStep == 500
\* The telemetry buffer holds at most MaxSize samples (the modelled maxSize
\* values are 1..MaxSize), timestamps are 0..MaxTimestamp ms, and a caller
\* pushes at most MaxPushes samples in one behaviour.
MaxSize == 3
MaxTimestamp == 2
MaxPushes == 4
\* Constructor calls that return an object in one behaviour.
MaxObjects == 2
\* requestAnimationFrame calls of the followed Renderer in one behaviour.
MaxFrameRequests == 8
\* Segments pushed to the followed FMP4Receiver in one behaviour.
MaxSegments == 4
\* start() calls on the followed StreamOutput, and dataavailable events
\* dispatched, in one behaviour.
MaxSessions == 2
MaxChunks == 2
\* seek and step calls on the followed VideoController in one behaviour, and
\* the duration of the media it plays, in microseconds.
MaxVideoCalls == 3
VideoDuration == 100000

(***************************************************************************)
(* Program constants.                                                      *)
(***************************************************************************)
DefaultLaneCount == 8
DefaultLaneWidth == 1220
DefaultTrackLength == 100000
targetY == 20
SlideStartY == -5000
FadeDuration == 1000
SlideDuration == 800
ScaleDuration == 600

Orientations == {"flat", "upright"}
Styles == {"classic", "modern", "neon"}
Effects == {"static", "fade", "slide", "scale"}

VARIABLES
    laneCount,        \* this.laneCount
    laneWidth,        \* this.laneWidth (mm)
    trackLength,      \* this.trackLength (mm)
    cardOrientation,  \* this.cardOrientation
    cardStyle,        \* this.cardStyle
    revealEffect,     \* this.revealEffect
    cardOffsetX,      \* this.cardOffsetX (mm)
    animations,       \* this.animations: sequence of tasks, in insertion order
    lanes,            \* this.lanesGroup.children: the lane lines
    rankings,         \* this.rankingsGroup.children: mesh ids, in insertion order
    meshes,           \* every mesh createLabel has returned, by id (1..Len)
    now,              \* performance.now()
    host,             \* the input alphabet of the host driving this overlay
    maxSize,          \* TelemetryBuffer: the bound on its length
    buffer,           \* TelemetryBuffer: the stored samples, in order
    pushCount,        \* the samples the caller has created so far (their ids)
    document,         \* the page: what document.getElementById finds for each id
    built,            \* the objects the constructors have returned, in order
    thrown,           \* whether the last constructor call threw
    frameRequests,    \* outstanding requestAnimationFrame requests
    resizeListeners,  \* 'resize' listeners registered on window
    canvases,         \* canvases appended under each element of the page
    mediaSources,     \* the MediaSource objects created, with what they are wired to
    animationId,      \* Renderer.animationId: 0 for null, else the id of a frame request
    requests,         \* the frame requests made and neither run nor cancelled (ids)
    requestCount,     \* requestAnimationFrame calls so far (ids are 1, 2, ...)
    callbackRuns,     \* runs of the onUpdate callbacks since the last frame began
    destroyed,        \* whether Renderer.destroy has returned
    rendererSize,     \* the width last given to renderer.setSize
    readyState,       \* FMP4Receiver: mediaSource.readyState ("closed" or "open")
    sourceBuffer,     \* FMP4Receiver: "none" for null, else "idle" or "updating"
    queue,            \* FMP4Receiver.queue: segment ids, oldest first
    segmentCount,     \* segments pushed so far (their ids, in push order)
    appendCalls,      \* the arguments of the appendBuffer calls made, in call order
    receiverDestroyed, \* whether FMP4Receiver.destroy has returned
    mediaRecorder,    \* StreamOutput.mediaRecorder: 0 for null, else the session's recorder
    stream,           \* StreamOutput.stream: 0 for null, else the session's stream
    onDataCallback,   \* StreamOutput.onDataCallback: 0 for null, else the session it was given to
    recorders,        \* the MediaRecorder of each session: "recording", "stopping", "inactive"
    dispatched,       \* the dataavailable events dispatched so far
    delivered,        \* the chunks handed to an onData callback, and to which
    videoLoaded,      \* whether the video element has media (readyState above HAVE_NOTHING)
    currentTime,      \* videoElement.currentTime, in microseconds
    paused,           \* videoElement.paused
    frameDuration,    \* VideoController.frameDuration, in microseconds
    videoCalls        \* seek and step calls made so far

overlayVars == <<laneCount, laneWidth, trackLength, cardOrientation, cardStyle,
                 revealEffect, cardOffsetX, animations, lanes, rankings, meshes>>

vars == <<laneCount, laneWidth, trackLength, cardOrientation, cardStyle,
          revealEffect, cardOffsetX, animations, lanes, rankings, meshes,
          now, host, maxSize, buffer, pushCount,
          document, built, thrown, frameRequests, resizeListeners, canvases,
          mediaSources,
          animationId, requests, requestCount, callbackRuns, destroyed, rendererSize,
          readyState, sourceBuffer, queue, segmentCount, appendCalls, receiverDestroyed,
          mediaRecorder, stream, onDataCallback, recorders, dispatched, delivered,
          videoLoaded, currentTime, paused, frameDuration, videoCalls>>

telemetryVars == <<maxSize, buffer, pushCount>>

pageVars == <<document, built, thrown, frameRequests, resizeListeners, canvases,
              mediaSources>>

\* what the overlay's operations leave alone besides the overlay itself
rendererVars == <<animationId, requests, requestCount, callbackRuns, destroyed,
                  rendererSize>>

\* the collaborators followed one object at a time
receiverVars == <<readyState, sourceBuffer, queue, segmentCount, appendCalls,
                  receiverDestroyed>>

recorderVars == <<mediaRecorder, stream, onDataCallback, recorders, dispatched,
                  delivered>>

videoVars == <<videoLoaded, currentTime, paused, frameDuration, videoCalls>>

collaboratorVars == <<rendererVars, receiverVars, recorderVars, videoVars>>

otherVars == <<telemetryVars, pageVars, collaboratorVars>>

(***************************************************************************)
(* The hosts.  A host calls the public operations with arguments from its  *)
(* alphabet; the alphabets are families of uses of the overlay, each wide  *)
(* in the dimensions it exercises together.  cards is the number of meshes *)
(* the host has showRank create.                                           *)
(***************************************************************************)
TrackInputs == { <<DefaultLaneCount, DefaultLaneWidth, DefaultTrackLength>>,
                 <<3, 700, 60000>> }

LaneInputs == {-1, 0, 3, DefaultLaneCount}

Hosts ==
    { \* layout: track, offset and orientation changes around static cards
      [ name |-> "layout", effects |-> {"static"}, styles |-> {"classic"},
        orientations |-> Orientations, offsets |-> {0, 1500},
        tracks |-> TrackInputs, laneIndices |-> {-1, 3, DefaultLaneCount},
        images |-> {FALSE}, timed |-> FALSE, cards |-> MaxCards ],
      \* motion: track and offset changes while one card's slide is in flight
      [ name |-> "motion", effects |-> {"static", "slide"}, styles |-> {"classic"},
        orientations |-> {"flat"}, offsets |-> {0, 1500},
        tracks |-> TrackInputs, laneIndices |-> {0, 3},
        images |-> {FALSE}, timed |-> TRUE, cards |-> 1 ],
      \* reveal: every reveal effect, several cards, the frame clock
      [ name |-> "reveal", effects |-> Effects, styles |-> {"classic"},
        orientations |-> {"flat"}, offsets |-> {0},
        tracks |-> { <<DefaultLaneCount, DefaultLaneWidth, DefaultTrackLength>> },
        laneIndices |-> {0, DefaultLaneCount},
        images |-> {FALSE}, timed |-> TRUE, cards |-> MaxCards ],
      \* style: every card style, one card with or without an image
      [ name |-> "style", effects |-> {"static", "fade"}, styles |-> Styles,
        orientations |-> {"flat"}, offsets |-> {0},
        tracks |-> { <<DefaultLaneCount, DefaultLaneWidth, DefaultTrackLength>> },
        laneIndices |-> {0},
        images |-> BOOLEAN, timed |-> FALSE, cards |-> 1 ] }

(***************************************************************************)
(* Helpers.                                                                *)
(***************************************************************************)
Min(a, b) == IF a < b THEN a ELSE b
Max(a, b) == IF a > b THEN a ELSE b

SeqToSet(s) == { s[i] : i \in 1..Len(s) }

\* variant: splice(i, 0) removes nothing
SpliceNothing(s, i) == s

\* Array.prototype.splice(i, 1)
Splice(s, i) == [ j \in 1..(Len(s) - 1) |-> IF j < i THEN s[j] ELSE s[j + 1] ]

(***************************************************************************)
(* createLanes: one line per lane boundary, i = 0..laneCount.              *)
(***************************************************************************)
\* variant: the loop stops before the last boundary (i < laneCount)
CreateLanesOpenEnded(count, width, length) ==
    [ k \in 1..count |->
        [ z  |-> ((k - 1) * width) - ((count * width) \div 2),
          x0 |-> -(length \div 2),
          x1 |-> length \div 2 ] ]

CreateLanes(count, width, length) ==
    [ k \in 1..(count + 1) |->
        [ z  |-> ((k - 1) * width) - ((count * width) \div 2),
          x0 |-> -(length \div 2),
          x1 |-> length \div 2 ] ]

(***************************************************************************)
(* Card geometry (createLabel, configureTrack).                            *)
(***************************************************************************)
LabelLaneSpan(width) == Max(500, width - 300)

LabelTrackSpan(width) == LabelLaneSpan(width) * 4

\* variant: the 0.5 m floor of the lane span is missing on resize
ConfigureLaneSpanNoFloor(width) == width - 300

ConfigureLaneSpan(width) == Max(500, width - 300)

ConfigureTrackSpan(width) == ConfigureLaneSpan(width) * 4

\* createLabel: mesh.rotation by this.cardOrientation
LabelRotation(orientation) ==
    IF orientation = "flat" THEN [x |-> -1, y |-> 0] ELSE [x |-> 0, y |-> 0]

\* setCardOrientation: child.rotation by the argument
SetRotation(orientation) ==
    IF orientation = "flat" THEN [x |-> -1, y |-> 0] ELSE [x |-> 0, y |-> -1]

\* img.onload: the clip path of the image region, by this.cardStyle at decode
OnloadClip(style) == IF style = "modern" THEN "rounded" ELSE "square"

\* createLabel: a new mesh at the Object3D defaults
CreateLabel(hasImage) ==
    [ laneIndex  |-> -1,
      x          |-> 0,
      y          |-> 0,
      z          |-> 0,
      opacity    |-> 1000,
      scale      |-> 1000,
      rotX       |-> LabelRotation(cardOrientation).x,
      rotY       |-> LabelRotation(cardOrientation).y,
      geomW      |-> LabelTrackSpan(laneWidth),
      geomH      |-> LabelLaneSpan(laneWidth),
      panelStyle |-> cardStyle,
      image      |-> IF hasImage THEN "pending" ELSE "none",
      imageClip  |-> "none",
      disposed   |-> FALSE,
      \* history: the reveal mode showRank is applying to this label
      shownWith  |-> revealEffect ]

(***************************************************************************)
(* showRank.                                                               *)
(***************************************************************************)
\* variant: the upper bound of the guard is off by one
LaneRejectedOffByOne(laneIndex, count) == laneIndex < 0 \/ laneIndex > count

\* the guard of showRank: the call returns at once
LaneRejected(laneIndex, count) == laneIndex < 0 \/ laneIndex >= count

ShowRankBaseZ(laneIndex, count, width) ==
    (laneIndex * width) - ((count * width) \div 2) + (width \div 2)

\* label.position.set(...), label.userData = { laneIndex }
PlaceLabel(label, laneIndex) ==
    [ label EXCEPT !.x = 0 + cardOffsetX,
                   !.y = targetY,
                   !.z = ShowRankBaseZ(laneIndex, laneCount, laneWidth),
                   !.laneIndex = laneIndex ]

\* variant: a static card is seeded invisible like a fading one
RevealSeedStaticHidden(label, effect) ==
    CASE effect \in {"fade", "static"} -> [ label EXCEPT !.opacity = 0 ]
      [] effect = "slide" -> [ label EXCEPT !.y = SlideStartY ]
      [] effect = "scale" -> [ label EXCEPT !.scale = 0 ]

\* the start value the reveal effect seeds on the new label
RevealSeed(label, effect) ==
    CASE effect = "fade"  -> [ label EXCEPT !.opacity = 0 ]
      [] effect = "slide" -> [ label EXCEPT !.y = SlideStartY ]
      [] effect = "scale" -> [ label EXCEPT !.scale = 0 ]
      [] OTHER            -> label

\* variant: every task gets the fade duration
RevealTasksOneDuration(effect, id, t) ==
    CASE effect = "fade" ->
           << [ mesh |-> id, type |-> "fade", startTime |-> t,
                duration |-> FadeDuration, startProp |-> 0, endProp |-> 1000 ] >>
      [] effect = "slide" ->
           << [ mesh |-> id, type |-> "slide", startTime |-> t,
                duration |-> FadeDuration, startProp |-> SlideStartY,
                endProp |-> targetY ] >>
      [] effect = "scale" ->
           << [ mesh |-> id, type |-> "scale", startTime |-> t,
                duration |-> FadeDuration, startProp |-> 0, endProp |-> 1000 ] >>
      [] OTHER -> << >>

\* variant: the fade branch pushes its task twice
RevealTasksTwice(effect, id, t) ==
    CASE effect = "fade" ->
           << [ mesh |-> id, type |-> "fade", startTime |-> t,
                duration |-> FadeDuration, startProp |-> 0, endProp |-> 1000 ],
              [ mesh |-> id, type |-> "fade", startTime |-> t,
                duration |-> FadeDuration, startProp |-> 0, endProp |-> 1000 ] >>
      [] effect = "slide" ->
           << [ mesh |-> id, type |-> "slide", startTime |-> t,
                duration |-> SlideDuration, startProp |-> SlideStartY,
                endProp |-> targetY ] >>
      [] effect = "scale" ->
           << [ mesh |-> id, type |-> "scale", startTime |-> t,
                duration |-> ScaleDuration, startProp |-> 0, endProp |-> 1000 ] >>
      [] OTHER -> << >>

\* the tasks the reveal effect pushes for mesh id at time t
RevealTasks(effect, id, t) ==
    CASE effect = "fade" ->
           << [ mesh |-> id, type |-> "fade", startTime |-> t,
                duration |-> FadeDuration, startProp |-> 0, endProp |-> 1000 ] >>
      [] effect = "slide" ->
           << [ mesh |-> id, type |-> "slide", startTime |-> t,
                duration |-> SlideDuration, startProp |-> SlideStartY,
                endProp |-> targetY ] >>
      [] effect = "scale" ->
           << [ mesh |-> id, type |-> "scale", startTime |-> t,
                duration |-> ScaleDuration, startProp |-> 0, endProp |-> 1000 ] >>
      [] OTHER -> << >>

ShowRank(laneIndex, hasImage) ==
    /\ UNCHANGED <<now, host, otherVars>>
    /\ IF LaneRejected(laneIndex, laneCount)
       THEN UNCHANGED overlayVars
       ELSE /\ Len(meshes) < host.cards
            /\ LET id    == Len(meshes) + 1
                   label == RevealSeed(PlaceLabel(CreateLabel(hasImage), laneIndex),
                                       revealEffect)
               IN /\ meshes' = Append(meshes, label)
                  /\ animations' = animations \o RevealTasks(revealEffect, id, now)
                  /\ rankings' = Append(rankings, id)
            /\ UNCHANGED <<laneCount, laneWidth, trackLength, cardOrientation,
                           cardStyle, revealEffect, cardOffsetX, lanes>>

(***************************************************************************)
(* updateCardPositions, setCardOffset, configureTrack, setCardOrientation. *)
(***************************************************************************)
\* variant: the lane centre is computed from the fields as they were before
\* the call, not from the configuration being applied
UpdateBaseZStale(laneIndex, count, width) ==
    (laneIndex * laneWidth) - ((laneCount * laneWidth) \div 2) + (laneWidth \div 2)

UpdateBaseZ(laneIndex, count, width) ==
    (laneIndex * width) - ((count * width) \div 2) + (width \div 2)

\* variant: the offset is not applied when cards are repositioned
UpdateCardPositionsNoOffset(ms, children, count, width, offset) ==
    [ id \in DOMAIN ms |->
        IF id \in SeqToSet(children)
        THEN [ ms[id] EXCEPT !.x = 0,
                             !.y = targetY,
                             !.z = (ms[id].laneIndex * width) - ((count * width) \div 2)
                                   + (width \div 2) ]
        ELSE ms[id] ]

\* updateCardPositions over the children of rankingsGroup
UpdateCardPositions(ms, children, count, width, offset) ==
    [ id \in DOMAIN ms |->
        IF id \in SeqToSet(children)
        THEN [ ms[id] EXCEPT !.x = 0 + offset,
                             !.y = targetY,
                             !.z = UpdateBaseZ(ms[id].laneIndex, count, width) ]
        ELSE ms[id] ]

\* configureTrack: a new PlaneGeometry for every child
ResizeCards(ms, children, width) ==
    [ id \in DOMAIN ms |->
        IF id \in SeqToSet(children)
        THEN [ ms[id] EXCEPT !.geomW = ConfigureTrackSpan(width),
                             !.geomH = ConfigureLaneSpan(width) ]
        ELSE ms[id] ]

\* setCardOrientation: the rotation of every child
OrientCards(ms, children, orientation) ==
    [ id \in DOMAIN ms |->
        IF id \in SeqToSet(children)
        THEN [ ms[id] EXCEPT !.rotX = SetRotation(orientation).x,
                             !.rotY = SetRotation(orientation).y ]
        ELSE ms[id] ]

SetCardStyle(style) ==
    /\ cardStyle' = style
    /\ UNCHANGED <<laneCount, laneWidth, trackLength, cardOrientation, revealEffect,
                   cardOffsetX, animations, lanes, rankings, meshes, now, host, otherVars>>

SetRevealEffect(effect) ==
    /\ revealEffect' = effect
    /\ UNCHANGED <<laneCount, laneWidth, trackLength, cardOrientation, cardStyle,
                   cardOffsetX, animations, lanes, rankings, meshes, now, host, otherVars>>

SetCardOffset(x) ==
    /\ cardOffsetX' = x
    /\ meshes' = UpdateCardPositions(meshes, rankings, laneCount, laneWidth, x)
    /\ UNCHANGED <<laneCount, laneWidth, trackLength, cardOrientation, cardStyle,
                   revealEffect, animations, lanes, rankings, now, host, otherVars>>

ConfigureTrack(count, width, length) ==
    /\ laneCount' = count
    /\ laneWidth' = width
    /\ trackLength' = length
    /\ lanes' = CreateLanes(count, width, length)
    /\ meshes' = UpdateCardPositions(ResizeCards(meshes, rankings, width),
                                     rankings, count, width, cardOffsetX)
    /\ UNCHANGED <<cardOrientation, cardStyle, revealEffect, cardOffsetX,
                   animations, rankings, now, host, otherVars>>

SetCardOrientation(orientation) ==
    /\ cardOrientation' = orientation
    /\ meshes' = OrientCards(meshes, rankings, orientation)
    /\ UNCHANGED <<laneCount, laneWidth, trackLength, cardStyle, revealEffect,
                   cardOffsetX, animations, lanes, rankings, now, host, otherVars>>

(***************************************************************************)
(* clearRankings: every child is removed and its geometry and material are *)
(* disposed.  this.animations is not touched.                              *)
(***************************************************************************)
DisposeCards(ms, children) ==
    [ id \in DOMAIN ms |->
        IF id \in SeqToSet(children)
        THEN [ ms[id] EXCEPT !.disposed = TRUE ]
        ELSE ms[id] ]

ClearedAnimations(anims, children) == anims

ClearRankings ==
    /\ rankings' = << >>
    /\ meshes' = DisposeCards(meshes, rankings)
    /\ animations' = ClearedAnimations(animations, rankings)
    /\ UNCHANGED <<laneCount, laneWidth, trackLength, cardOrientation, cardStyle,
                   revealEffect, cardOffsetX, lanes, now, host, otherVars>>

(***************************************************************************)
(* update: the per-frame tick.                                             *)
(***************************************************************************)
\* variant: the clamp at 1 is missing
ProgressUnclamped(elapsed, duration) == (elapsed * 1000) \div duration

\* Math.min(elapsed / duration, 1), in thousandths
Progress(elapsed, duration) == Min((elapsed * 1000) \div duration, 1000)

\* variant: ease-out quadratic
EasedQuadratic(progress) == 1000 - (((1000 - progress) ^ 2) \div 1000)

\* 1 - Math.pow(1 - progress, 3), in thousandths
Eased(progress) == 1000 - (((1000 - progress) ^ 3) \div 1000000)

\* startProp + (endProp - startProp) * eased
AnimValue(anim, eased) ==
    anim.startProp + (((anim.endProp - anim.startProp) * eased) \div 1000)

\* variant: the slide writes position.x
WriteAnimSlideX(mesh, type, v) ==
    CASE type = "fade"  -> [ mesh EXCEPT !.opacity = v ]
      [] type = "slide" -> [ mesh EXCEPT !.x = v ]
      [] type = "scale" -> [ mesh EXCEPT !.scale = v ]
      [] OTHER          -> mesh

\* the property a task of this type writes on its mesh
WriteAnim(mesh, type, v) ==
    CASE type = "fade"  -> [ mesh EXCEPT !.opacity = v ]
      [] type = "slide" -> [ mesh EXCEPT !.y = v ]
      [] type = "scale" -> [ mesh EXCEPT !.scale = v ]
      [] OTHER          -> mesh

\* variant: after a splice the index moves on by two, so the task next to a
\* removed one is skipped on that pass (the slip of a loop that splices while
\* it advances)
RECURSIVE UpdateLoopSkipping(_, _, _, _)
UpdateLoopSkipping(i, ms, anims, t) ==
    IF i < 1
    THEN <<ms, anims>>
    ELSE LET anim     == anims[i]
             progress == Min(((t - anim.startTime) * 1000) \div anim.duration, 1000)
             eased    == 1000 - (((1000 - progress) ^ 3) \div 1000000)
             v        == anim.startProp
                         + (((anim.endProp - anim.startProp) * eased) \div 1000)
             ms2      == [ ms EXCEPT ![anim.mesh] =
                             CASE anim.type = "fade"  -> [ @ EXCEPT !.opacity = v ]
                               [] anim.type = "slide" -> [ @ EXCEPT !.y = v ]
                               [] anim.type = "scale" -> [ @ EXCEPT !.scale = v ]
                               [] OTHER               -> @ ]
         IN IF progress >= 1000
            THEN UpdateLoopSkipping(i - 2, ms2,
                     [ j \in 1..(Len(anims) - 1) |->
                         IF j < i THEN anims[j] ELSE anims[j + 1] ], t)
            ELSE UpdateLoopSkipping(i - 1, ms2, anims, t)

\* the loop of update, from index i down to 0 (1-based here): <<meshes, animations>>
RECURSIVE UpdateLoop(_, _, _, _)
UpdateLoop(i, ms, anims, t) ==
    IF i < 1
    THEN <<ms, anims>>
    ELSE LET anim     == anims[i]
             progress == Progress(t - anim.startTime, anim.duration)
             v        == AnimValue(anim, Eased(progress))
             ms2      == [ ms EXCEPT ![anim.mesh] = WriteAnim(@, anim.type, v) ]
             anims2   == IF progress >= 1000 THEN Splice(anims, i) ELSE anims
         IN UpdateLoop(i - 1, ms2, anims2, t)

Update ==
    /\ LET r == UpdateLoop(Len(animations), meshes, animations, now)
       IN /\ meshes' = r[1]
          /\ animations' = r[2]
    /\ UNCHANGED <<laneCount, laneWidth, trackLength, cardOrientation, cardStyle,
                   revealEffect, cardOffsetX, lanes, rankings, now, host, otherVars>>

(***************************************************************************)
(* The environment: the clock, and the decode of a card's image.           *)
(***************************************************************************)
AdvanceClock ==
    /\ host.timed
    /\ now < MaxClockSteps * ClockStep
    /\ now' = now + ClockStep
    /\ UNCHANGED <<overlayVars, host, otherVars>>

\* img.onload of the image of mesh id
ImageOnload(id) ==
    /\ meshes[id].image = "pending"
    /\ meshes' = [ meshes EXCEPT ![id].image = "drawn",
                                 ![id].imageClip = OnloadClip(cardStyle) ]
    /\ UNCHANGED <<laneCount, laneWidth, trackLength, cardOrientation, cardStyle,
                   revealEffect, cardOffsetX, animations, lanes, rankings, now, host, otherVars>>

\* the decode fails: no handler is registered, nothing is drawn
ImageError(id) ==
    /\ meshes[id].image = "pending"
    /\ meshes' = [ meshes EXCEPT ![id].image = "failed" ]
    /\ UNCHANGED <<laneCount, laneWidth, trackLength, cardOrientation, cardStyle,
                   revealEffect, cardOffsetX, animations, lanes, rankings, now, host, otherVars>>

(***************************************************************************)
(* The telemetry buffer.  Its code is not among the sources, so push and   *)
(* clear follow the behaviour section of the specification: a sample is    *)
(* {x, y, z?, timestampMs, metadata}; the model keeps timestampMs and an   *)
(* id that tells samples with equal timestamps apart.                      *)
(***************************************************************************)
Timestamps == 0..MaxTimestamp

\* the samples of a sequence, as a set
Stored(s) == { s[i] : i \in 1..Len(s) }

\* ascending by timestamp
IsSorted(s) ==
    \A i \in 1..Len(s), j \in 1..Len(s) :
        i < j => s[i].timestampMs <= s[j].timestampMs

\* variant: the out-of-order path does not re-sort
ResortNothing(s) == { s }

\* "fully re-sorts ascending by timestamp": every arrangement of the same
\* samples that is ascending; the order among equal timestamps is not stated.
\* Ascending gives the arrangements of a set of samples, lowest first.
RECURSIVE Ascending(_)
Ascending(samples) ==
    IF samples = {}
    THEN { << >> }
    ELSE LET lowest == { x \in samples :
                           \A y \in samples : x.timestampMs <= y.timestampMs }
         IN UNION { { <<x>> \o t : t \in Ascending(samples \ {x}) } : x \in lowest }

Resort(s) == Ascending(Stored(s))

\* the insertion step of push: the arrangements it may leave
Inserted(s, sample) ==
    IF Len(s) = 0 \/ sample.timestampMs >= s[Len(s)].timestampMs
    THEN { Append(s, sample) }
    ELSE Resort(Append(s, sample))

\* variant: overflow evicts the last sample
EvictNewest(s, size) == IF Len(s) > size THEN SubSeq(s, 1, Len(s) - 1) ELSE s

\* "if length > maxSize, evicts the single oldest (lowest-timestamp) sample"
Evict(s, size) == IF Len(s) > size THEN Tail(s) ELSE s

Push(timestampMs) ==
    /\ pushCount < MaxPushes
    /\ LET sample == [ id |-> pushCount + 1, timestampMs |-> timestampMs ]
       IN \E t \in Inserted(buffer, sample) : buffer' = Evict(t, maxSize)
    /\ pushCount' = pushCount + 1
    /\ UNCHANGED <<maxSize, overlayVars, now, host, pageVars,
                   collaboratorVars>>

Clear ==
    /\ buffer' = << >>
    /\ UNCHANGED <<maxSize, pushCount, overlayVars, now, host, pageVars,
                   collaboratorVars>>

(***************************************************************************)
(* Construction of the collaborators (render.ts, input.ts).  The page maps *)
(* each element id to the kind of element found for it: "none" when        *)
(* getElementById returns null, "div" for an element that is not a video,  *)
(* "video" for an HTMLVideoElement.                                        *)
(***************************************************************************)
ElementIds == { "three-container", "player", "absent" }

ElementKinds == { "none", "div", "video" }

\* the demo page: the container div has an id, nothing else does
DemoDocument == [ id \in ElementIds |-> IF id = "three-container" THEN "div" ELSE "none" ]

\* document.getElementById(id)
GetElementById(id) == document[id]

\* !element
ElementMissing(element) == element = "none"

\* variant: the instanceof test is missing
VideoRejectedOnlyIfMissing(element) == element = "none"

\* !element || !(element instanceof HTMLVideoElement)
VideoRejected(element) == element = "none" \/ element # "video"

\* new Renderer(containerId): on success the canvas is appended, the resize
\* listener is registered and start() requests the first frame
NewRenderer(containerId) ==
    /\ Len(built) < MaxObjects
    /\ IF ElementMissing(GetElementById(containerId))
       THEN /\ thrown' = TRUE
            /\ UNCHANGED <<built, frameRequests, resizeListeners, canvases, mediaSources>>
       ELSE /\ thrown' = FALSE
            /\ canvases' = [ canvases EXCEPT ![containerId] = @ + 1 ]
            /\ resizeListeners' = resizeListeners + 1
            /\ frameRequests' = frameRequests + 1
            /\ built' = Append(built, [ class |-> "Renderer", element |-> containerId ])
            /\ UNCHANGED mediaSources
    /\ UNCHANGED <<document, overlayVars, now, host, telemetryVars,
                   collaboratorVars>>

\* new FMP4Receiver(videoId): on success a MediaSource is created, set as the
\* video's src and given a 'sourceopen' listener
NewFMP4Receiver(videoId) ==
    /\ Len(built) < MaxObjects
    /\ IF VideoRejected(GetElementById(videoId))
       THEN /\ thrown' = TRUE
            /\ UNCHANGED <<built, mediaSources>>
       ELSE /\ thrown' = FALSE
            /\ mediaSources' = Append(mediaSources,
                                      [ srcOf |-> videoId, sourceopenListeners |-> 1 ])
            /\ built' = Append(built, [ class |-> "FMP4Receiver", element |-> videoId ])
    /\ UNCHANGED <<document, frameRequests, resizeListeners, canvases,
                   overlayVars, now, host, telemetryVars,
                   collaboratorVars>>

\* new VideoController(elementIdOrElement): a string is looked up and checked,
\* an element is taken as it is
NewVideoController(isString, id) ==
    /\ Len(built) < MaxObjects
    /\ isString \/ GetElementById(id) = "video"
    /\ IF isString /\ VideoRejected(GetElementById(id))
       THEN /\ thrown' = TRUE
            /\ UNCHANGED built
       ELSE /\ thrown' = FALSE
            /\ built' = Append(built, [ class |-> "VideoController", element |-> id ])
    /\ UNCHANGED <<document, frameRequests, resizeListeners, canvases, mediaSources,
                   overlayVars, now, host, telemetryVars,
                   collaboratorVars>>

(***************************************************************************)
(* The render loop of one Renderer (render.ts).  The loop's state is a     *)
(* record of animationId, the outstanding frame requests, the number of    *)
(* requests made and the runs of the onUpdate callbacks; what a callback   *)
(* does when it runs is a script: nothing, stop(), start(), or stop() then *)
(* start().  A callback that start() re-enters does nothing the second     *)
(* time.                                                                   *)
(***************************************************************************)
CallbackScripts == { "none", "stop", "start", "stopStart" }

ContainerWidths == { 800, 1024 }

TheContainer == "three-container"

Loop == [ animationId |-> animationId, requests |-> requests,
          requestCount |-> requestCount, callbackRuns |-> callbackRuns ]

\* this.animationId = requestAnimationFrame(...)
RequestFrame(l) ==
    [ l EXCEPT !.requestCount = @ + 1,
               !.animationId = l.requestCount + 1,
               !.requests = @ \cup { l.requestCount + 1 } ]

\* variant: stop forgets the id without cancelling the request
StopLoopNoCancel(l) ==
    IF l.animationId # 0 THEN [ l EXCEPT !.animationId = 0 ] ELSE l

\* stop(): cancelAnimationFrame(this.animationId); this.animationId = null
StopLoop(l) ==
    IF l.animationId # 0
    THEN [ l EXCEPT !.requests = @ \ { l.animationId }, !.animationId = 0 ]
    ELSE l

RECURSIVE Animate(_, _)

\* start(): if (!this.animationId) this.animate()
StartLoop(l, script) ==
    IF l.animationId = 0 THEN Animate(l, script) ELSE l

\* what the onUpdate callbacks do to the loop when they run
RunCallbacks(l, script) ==
    LET ran == [ l EXCEPT !.callbackRuns = @ + 1 ]
    IN CASE script = "stop"      -> StopLoop(ran)
         [] script = "start"     -> StartLoop(ran, "none")
         [] script = "stopStart" -> StartLoop(StopLoop(ran), "none")
         [] OTHER                -> ran

\* animate(): request the next frame, run the callbacks, render
Animate(l, script) == RunCallbacks(RequestFrame(l), script)

\* the loop variables take the values of l
LoopBecomes(l) ==
    /\ animationId' = l.animationId
    /\ requests' = l.requests
    /\ requestCount' = l.requestCount
    /\ callbackRuns' = l.callbackRuns
    /\ frameRequests' = Cardinality(l.requests)

\* the browser runs the frame callback of an outstanding request
Frame(id, script) ==
    /\ id \in requests
    /\ requestCount + 2 <= MaxFrameRequests
    /\ LoopBecomes(Animate([ Loop EXCEPT !.requests = @ \ {id}, !.callbackRuns = 0 ],
                           script))
    /\ UNCHANGED <<destroyed, rendererSize, document, built, thrown, resizeListeners,
                   canvases, mediaSources, overlayVars, now, host, telemetryVars,
                   receiverVars, recorderVars, videoVars>>

\* the host calls start() between frames
Start(script) ==
    /\ requestCount + 2 <= MaxFrameRequests
    /\ LoopBecomes(StartLoop(Loop, script))
    /\ UNCHANGED <<destroyed, rendererSize, document, built, thrown, resizeListeners,
                   canvases, mediaSources, overlayVars, now, host, telemetryVars,
                   receiverVars, recorderVars, videoVars>>

\* the host calls stop() between frames
Stop ==
    /\ LoopBecomes(StopLoop(Loop))
    /\ UNCHANGED <<destroyed, rendererSize, document, built, thrown, resizeListeners,
                   canvases, mediaSources, overlayVars, now, host, telemetryVars,
                   receiverVars, recorderVars, videoVars>>

\* window.removeEventListener('resize', this.onWindowResize.bind(this)): the
\* argument is a new function object, not the one that was registered, so the
\* call removes nothing
ListenersAfterDestroy(n) == n

\* destroy(): stop, remove the resize listener, remove the canvas, dispose
Destroy ==
    /\ LoopBecomes(StopLoop(Loop))
    /\ resizeListeners' = ListenersAfterDestroy(resizeListeners)
    /\ canvases' = [ canvases EXCEPT ![TheContainer] = IF @ > 0 THEN @ - 1 ELSE 0 ]
    /\ destroyed' = TRUE
    /\ UNCHANGED <<rendererSize, document, built, thrown, mediaSources,
                   overlayVars, now, host, telemetryVars, receiverVars,
                   recorderVars, videoVars>>

\* a resize event of the window: every registered listener runs onWindowResize
Resize(width) ==
    /\ resizeListeners > 0
    /\ rendererSize' = width
    /\ UNCHANGED <<animationId, requests, requestCount, callbackRuns, destroyed,
                   pageVars, overlayVars, now, host, telemetryVars, receiverVars,
                   recorderVars, videoVars>>

(***************************************************************************)
(* One FMP4Receiver (input.ts).  Its state for processQueue is a record of *)
(* the source buffer, the queue and the appendBuffer calls made.  A call   *)
(* of appendBuffer either is accepted (the buffer is updating until its    *)
(* updateend event) or throws; on a buffer that is updating it throws.     *)
(***************************************************************************)
TheVideo == "player"

Receiver == [ sourceBuffer |-> sourceBuffer, queue |-> queue,
              appendCalls |-> appendCalls ]

\* variant: the guard does not look at sourceBuffer.updating
HeldBackIgnoringUpdating(sb) == sb = "none"

\* !this.sourceBuffer || this.sourceBuffer.updating
HeldBack(sb) == sb = "none" \/ sb = "updating"

\* SourceBuffer.appendBuffer: the buffer's state after the call
AppendBuffer(sb, throws) == IF throws \/ sb = "updating" THEN sb ELSE "updating"

\* variant: a segment whose append threw is put back in front of the queue
ProcessQueuePuttingBack(r, throws) ==
    IF HeldBack(r.sourceBuffer) \/ Len(r.queue) = 0
    THEN r
    ELSE [ sourceBuffer |-> AppendBuffer(r.sourceBuffer, throws),
           queue        |-> IF throws THEN r.queue ELSE Tail(r.queue),
           appendCalls  |-> Append(r.appendCalls, Head(r.queue)) ]

\* processQueue(): shift one segment and append it, unless held back
ProcessQueue(r, throws) ==
    IF HeldBack(r.sourceBuffer) \/ Len(r.queue) = 0
    THEN r
    ELSE [ sourceBuffer |-> AppendBuffer(r.sourceBuffer, throws),
           queue        |-> Tail(r.queue),
           appendCalls  |-> Append(r.appendCalls, Head(r.queue)) ]

\* the receiver variables take the values of r
ReceiverBecomes(r) ==
    /\ sourceBuffer' = r.sourceBuffer
    /\ queue' = r.queue
    /\ appendCalls' = r.appendCalls

\* the 'sourceopen' event: onSourceOpen adds the source buffer, unless
\* addSourceBuffer throws (mime type not supported)
SourceOpen(supported) ==
    /\ readyState = "closed"
    /\ readyState' = "open"
    /\ sourceBuffer' = IF supported THEN "idle" ELSE "none"
    /\ UNCHANGED <<queue, segmentCount, appendCalls, receiverDestroyed,
                   rendererVars, pageVars, overlayVars, now, host, telemetryVars,
                   recorderVars, videoVars>>

\* push(data): queue it, then processQueue
PushSegment(throws) ==
    /\ segmentCount < MaxSegments
    /\ segmentCount' = segmentCount + 1
    /\ ReceiverBecomes(ProcessQueue([ Receiver EXCEPT
                            !.queue = Append(@, segmentCount + 1) ], throws))
    /\ UNCHANGED <<readyState, receiverDestroyed,
                   rendererVars, pageVars, overlayVars, now, host, telemetryVars,
                   recorderVars, videoVars>>

\* the 'updateend' event of the source buffer: its listener is processQueue
UpdateEnd(throws) ==
    /\ sourceBuffer = "updating"
    /\ ReceiverBecomes(ProcessQueue([ Receiver EXCEPT !.sourceBuffer = "idle" ], throws))
    /\ UNCHANGED <<readyState, segmentCount, receiverDestroyed,
                   rendererVars, pageVars, overlayVars, now, host, telemetryVars,
                   recorderVars, videoVars>>

\* destroy(): the object URL is revoked, the src attribute removed, the queue
\* emptied; the media source and its buffer are left as they are
ReceiverDestroy ==
    /\ queue' = << >>
    /\ receiverDestroyed' = TRUE
    /\ UNCHANGED <<readyState, sourceBuffer, segmentCount, appendCalls,
                   rendererVars, pageVars, overlayVars, now, host, telemetryVars,
                   recorderVars, videoVars>>

(***************************************************************************)
(* One StreamOutput (the recorder).  Every start() is a session with its   *)
(* own MediaRecorder and its own onData callback; sessions are numbered    *)
(* 1, 2, ...  MediaRecorder.stop() returns at once and the recorder then   *)
(* dispatches one last dataavailable event ("stopping") before it is       *)
(* inactive.                                                               *)
(***************************************************************************)
ChunkSizes == { 0, 1 }

\* start(onData): the callback and the stream are stored first; if the
\* MediaRecorder cannot be created the call throws after that
StartRecording(created) ==
    /\ Len(recorders) < MaxSessions
    /\ LET session == Len(recorders) + 1
       IN /\ onDataCallback' = session
          /\ stream' = session
          /\ IF created
             THEN /\ mediaRecorder' = session
                  /\ recorders' = Append(recorders, "recording")
             ELSE /\ UNCHANGED mediaRecorder
                  /\ recorders' = Append(recorders, "inactive")
    /\ UNCHANGED <<dispatched, delivered,
                   rendererVars, receiverVars, pageVars, overlayVars, now, host,
                   telemetryVars, videoVars>>

\* stop(): the recorder is stopped if it is not inactive, the tracks are
\* stopped, and the three fields are set to null
StopRecording ==
    /\ recorders' = IF mediaRecorder # 0 /\ recorders[mediaRecorder] # "inactive"
                    THEN [ recorders EXCEPT ![mediaRecorder] = "stopping" ]
                    ELSE recorders
    /\ stream' = 0
    /\ mediaRecorder' = 0
    /\ onDataCallback' = 0
    /\ UNCHANGED <<dispatched, delivered,
                   rendererVars, receiverVars, pageVars, overlayVars, now, host,
                   telemetryVars, videoVars>>

\* ondataavailable: event.data && event.data.size > 0 && this.onDataCallback
DeliveredTo(session, chunk, size) ==
    IF size > 0 /\ onDataCallback # 0
    THEN { [ chunk |-> chunk, callback |-> onDataCallback ] }
    ELSE {}

\* a dataavailable event of a session's recorder: a timeslice chunk while it
\* records, or the last chunk after stop
DataAvailable(session, size) ==
    /\ Cardinality(dispatched) < MaxChunks
    /\ recorders[session] \in { "recording", "stopping" }
    /\ LET chunk == Cardinality(dispatched) + 1
       IN /\ dispatched' = dispatched \cup
                 { [ chunk |-> chunk, session |-> session, size |-> size ] }
          /\ delivered' = delivered \cup DeliveredTo(session, chunk, size)
    /\ recorders' = IF recorders[session] = "stopping"
                    THEN [ recorders EXCEPT ![session] = "inactive" ]
                    ELSE recorders
    /\ UNCHANGED <<mediaRecorder, stream, onDataCallback,
                   rendererVars, receiverVars, pageVars, overlayVars, now, host,
                   telemetryVars, videoVars>>

(***************************************************************************)
(* One VideoController and its video element.  Times are in microseconds.  *)
(* While the element has no media its duration is NaN and an assignment to *)
(* currentTime is kept as the position to start from; once it has media    *)
(* the assignment is a seek, which the element keeps inside the media.     *)
(***************************************************************************)
FrameRates == { -30, 0, 60 }
FrameCounts == { -2, 1, 3 }
SeekTimes == { -50000, 50000, 500000 }

\* the position a seek of the element ends at
SeekPosition(time) ==
    IF time < 0 THEN 0 ELSE IF time > VideoDuration THEN VideoDuration ELSE time

\* videoElement.currentTime = time
CurrentTimeSet(time) == IF videoLoaded THEN SeekPosition(time) ELSE time

\* Math.min(time, videoElement.duration || Infinity)
MinDuration(time) ==
    IF videoLoaded /\ VideoDuration # 0 /\ VideoDuration < time
    THEN VideoDuration
    ELSE time

\* Math.max(0, time)
MaxZero(time) == IF time < 0 THEN 0 ELSE time

\* the media's metadata arrives: the element seeks to the position kept so far
LoadedMetadata ==
    /\ ~videoLoaded
    /\ videoLoaded' = TRUE
    /\ currentTime' = SeekPosition(currentTime)
    /\ UNCHANGED <<paused, frameDuration, videoCalls,
                   rendererVars, receiverVars, recorderVars, pageVars, overlayVars,
                   now, host, telemetryVars>>

\* play()
Play ==
    /\ paused' = FALSE
    /\ UNCHANGED <<videoLoaded, currentTime, frameDuration, videoCalls,
                   rendererVars, receiverVars, recorderVars, pageVars, overlayVars,
                   now, host, telemetryVars>>

\* setFrameRate(fps)
SetFrameRate(fps) ==
    /\ frameDuration' = IF fps > 0 THEN 1000000 \div fps ELSE frameDuration
    /\ UNCHANGED <<videoLoaded, currentTime, paused, videoCalls,
                   rendererVars, receiverVars, recorderVars, pageVars, overlayVars,
                   now, host, telemetryVars>>

\* stepForward(frames)
StepForward(frames) ==
    /\ videoCalls < MaxVideoCalls
    /\ videoCalls' = videoCalls + 1
    /\ paused' = TRUE
    /\ currentTime' = CurrentTimeSet(MinDuration(currentTime + frames * frameDuration))
    /\ UNCHANGED <<videoLoaded, frameDuration,
                   rendererVars, receiverVars, recorderVars, pageVars, overlayVars,
                   now, host, telemetryVars>>

\* stepBackward(frames)
StepBackward(frames) ==
    /\ videoCalls < MaxVideoCalls
    /\ videoCalls' = videoCalls + 1
    /\ paused' = TRUE
    /\ currentTime' = CurrentTimeSet(MaxZero(currentTime - frames * frameDuration))
    /\ UNCHANGED <<videoLoaded, frameDuration,
                   rendererVars, receiverVars, recorderVars, pageVars, overlayVars,
                   now, host, telemetryVars>>

\* seek(time); finite is Number.isFinite(time), false for NaN and the infinities
Seek(finite, time) ==
    /\ videoCalls < MaxVideoCalls
    /\ videoCalls' = videoCalls + 1
    /\ currentTime' = IF finite
                      THEN CurrentTimeSet(MaxZero(MinDuration(time)))
                      ELSE currentTime
    /\ UNCHANGED <<videoLoaded, paused, frameDuration,
                   rendererVars, receiverVars, recorderVars, pageVars, overlayVars,
                   now, host, telemetryVars>>

(***************************************************************************)
(* The specification.                                                      *)
(***************************************************************************)
OverlayInit ==
    /\ laneCount = DefaultLaneCount
    /\ laneWidth = DefaultLaneWidth
    /\ trackLength = DefaultTrackLength
    /\ cardOrientation = "flat"
    /\ cardStyle = "classic"
    /\ revealEffect = "static"
    /\ cardOffsetX = 0
    /\ animations = << >>
    /\ lanes = CreateLanes(DefaultLaneCount, DefaultLaneWidth, DefaultTrackLength)
    /\ rankings = << >>
    /\ meshes = << >>
    /\ now = 0

\* a new TelemetryBuffer of the largest modelled size, nothing pushed
TelemetryIdle ==
    /\ maxSize = MaxSize
    /\ buffer = << >>
    /\ pushCount = 0

\* a page on which no constructor has run yet
PageIdle ==
    /\ built = << >>
    /\ thrown = FALSE
    /\ frameRequests = 0
    /\ resizeListeners = 0
    /\ canvases = [ id \in ElementIds |-> 0 ]
    /\ mediaSources = << >>

\* no Renderer whose loop is followed
RendererIdle ==
    /\ animationId = 0
    /\ requests = {}
    /\ requestCount = 0
    /\ callbackRuns = 0
    /\ destroyed = FALSE
    /\ rendererSize = 0

\* no FMP4Receiver is followed
ReceiverIdle ==
    /\ readyState = "closed"
    /\ sourceBuffer = "none"
    /\ queue = << >>
    /\ segmentCount = 0
    /\ appendCalls = << >>
    /\ receiverDestroyed = FALSE

\* a new StreamOutput: nothing started
RecorderIdle ==
    /\ mediaRecorder = 0
    /\ stream = 0
    /\ onDataCallback = 0
    /\ recorders = << >>
    /\ dispatched = {}
    /\ delivered = {}

\* 1 / 30 second
DefaultFrameDuration == 1000000 \div 30

\* a new VideoController on a video element that has no media yet
VideoIdle ==
    /\ videoLoaded = FALSE
    /\ currentTime = 0
    /\ paused = TRUE
    /\ frameDuration = DefaultFrameDuration
    /\ videoCalls = 0

CollaboratorsIdle ==
    /\ RendererIdle
    /\ ReceiverIdle
    /\ RecorderIdle
    /\ VideoIdle
    /\ VideoIdle

Init ==
    /\ OverlayInit
    /\ host \in Hosts
    /\ TelemetryIdle
    /\ document = DemoDocument
    /\ PageIdle
    /\ CollaboratorsIdle

Next ==
    \/ \E laneIndex \in host.laneIndices, hasImage \in host.images :
           ShowRank(laneIndex, hasImage)
    \/ \E style \in host.styles : SetCardStyle(style)
    \/ \E effect \in host.effects : SetRevealEffect(effect)
    \/ \E x \in host.offsets : SetCardOffset(x)
    \/ \E track \in host.tracks : ConfigureTrack(track[1], track[2], track[3])
    \/ \E orientation \in host.orientations : SetCardOrientation(orientation)
    \/ ClearRankings
    \/ Update
    \/ AdvanceClock
    \/ \E id \in DOMAIN meshes : ImageOnload(id)
    \/ \E id \in DOMAIN meshes : ImageError(id)

Spec == Init /\ [][Next]_vars

\* a caller of one telemetry buffer: pushes in any timestamp order, and clears
TelemetryInit ==
    /\ OverlayInit
    /\ host = CHOOSE h \in Hosts : h.name = "layout"
    /\ maxSize \in 1..MaxSize
    /\ buffer = << >>
    /\ pushCount = 0
    /\ document = DemoDocument
    /\ PageIdle
    /\ CollaboratorsIdle

TelemetryNext ==
    \/ \E timestampMs \in Timestamps : Push(timestampMs)
    \/ Clear

SpecTelemetry == TelemetryInit /\ [][TelemetryNext]_vars

\* The overlay under a running render loop: Renderer.animate requests the next
\* frame on every frame and calls the overlay's update, and performance.now()
\* keeps advancing.  The host makes its showRank calls up to the time
\* MaxClockSteps * ClockStep and the clock is followed for the longest reveal
\* duration beyond it.
LiveHost ==
    [ name |-> "frames", effects |-> {"fade", "scale"}, styles |-> {"classic"},
      orientations |-> {"flat"}, offsets |-> {0},
      tracks |-> { <<DefaultLaneCount, DefaultLaneWidth, DefaultTrackLength>> },
      laneIndices |-> {0},
      images |-> {FALSE}, timed |-> TRUE, cards |-> MaxCards ]

LiveInit ==
    /\ OverlayInit
    /\ host = LiveHost
    /\ TelemetryIdle
    /\ document = DemoDocument
    /\ PageIdle
    /\ CollaboratorsIdle

FrameClock ==
    /\ now < MaxClockSteps * ClockStep + FadeDuration
    /\ now' = now + ClockStep
    /\ UNCHANGED <<overlayVars, host, otherVars>>

LiveNext ==
    \/ \E laneIndex \in host.laneIndices, hasImage \in host.images :
           now <= MaxClockSteps * ClockStep /\ ShowRank(laneIndex, hasImage)
    \/ \E effect \in host.effects : SetRevealEffect(effect)
    \/ ClearRankings
    \/ Update
    \/ FrameClock

LiveSpec == LiveInit /\ [][LiveNext]_vars /\ WF_vars(Update) /\ WF_vars(FrameClock)

\* One Renderer from the moment its constructor has returned on the demo
\* page: the canvas is in the container, the resize listener is registered and
\* start() has requested the first frame (no callback was registered yet).
RenderInit ==
    /\ OverlayInit
    /\ host = CHOOSE h \in Hosts : h.name = "layout"
    /\ TelemetryIdle
    /\ document = DemoDocument
    /\ built = << [ class |-> "Renderer", element |-> TheContainer ] >>
    /\ thrown = FALSE
    /\ frameRequests = 1
    /\ resizeListeners = 1
    /\ canvases = [ id \in ElementIds |-> IF id = TheContainer THEN 1 ELSE 0 ]
    /\ mediaSources = << >>
    /\ animationId = 1
    /\ requests = {1}
    /\ requestCount = 1
    /\ callbackRuns = 0
    /\ destroyed = FALSE
    /\ rendererSize = 800
    /\ ReceiverIdle
    /\ RecorderIdle
    /\ VideoIdle

RenderNext ==
    \/ \E id \in requests, script \in CallbackScripts : Frame(id, script)
    \/ \E script \in CallbackScripts : Start(script)
    \/ Stop
    \/ Destroy
    \/ \E width \in ContainerWidths : Resize(width)

SpecRender == RenderInit /\ [][RenderNext]_vars

\* One FMP4Receiver from the moment its constructor has returned, on a page
\* whose element "player" is a video: the media source is created and set as
\* the video's src, and the 'sourceopen' listener is registered.
ReceiverInit ==
    /\ OverlayInit
    /\ host = CHOOSE h \in Hosts : h.name = "layout"
    /\ TelemetryIdle
    /\ document = [ DemoDocument EXCEPT ![TheVideo] = "video" ]
    /\ built = << [ class |-> "FMP4Receiver", element |-> TheVideo ] >>
    /\ thrown = FALSE
    /\ frameRequests = 0
    /\ resizeListeners = 0
    /\ canvases = [ id \in ElementIds |-> 0 ]
    /\ mediaSources = << [ srcOf |-> TheVideo, sourceopenListeners |-> 1 ] >>
    /\ RendererIdle
    /\ ReceiverIdle
    /\ RecorderIdle
    /\ VideoIdle

ReceiverNext ==
    \/ \E supported \in BOOLEAN : SourceOpen(supported)
    \/ \E throws \in BOOLEAN : PushSegment(throws)
    \/ \E throws \in BOOLEAN : UpdateEnd(throws)
    \/ ReceiverDestroy

SpecReceiver == ReceiverInit /\ [][ReceiverNext]_vars

\* One StreamOutput on the renderer's canvas, from its construction.
RecorderInit ==
    /\ OverlayInit
    /\ host = CHOOSE h \in Hosts : h.name = "layout"
    /\ TelemetryIdle
    /\ document = DemoDocument
    /\ PageIdle
    /\ CollaboratorsIdle

RecorderNext ==
    \/ \E created \in BOOLEAN : StartRecording(created)
    \/ StopRecording
    \/ \E session \in 1..Len(recorders), size \in ChunkSizes :
           DataAvailable(session, size)

SpecRecorder == RecorderInit /\ [][RecorderNext]_vars

\* One VideoController on the page's video element, from its construction.
VideoInit ==
    /\ OverlayInit
    /\ host = CHOOSE h \in Hosts : h.name = "layout"
    /\ TelemetryIdle
    /\ document = DemoDocument
    /\ PageIdle
    /\ CollaboratorsIdle

VideoNext ==
    \/ LoadedMetadata
    \/ Play
    \/ \E fps \in FrameRates : SetFrameRate(fps)
    \/ \E frames \in FrameCounts : StepForward(frames)
    \/ \E frames \in FrameCounts : StepBackward(frames)
    \/ \E finite \in BOOLEAN, time \in SeekTimes : Seek(finite, time)

SpecVideo == VideoInit /\ [][VideoNext]_vars

\* a host constructing collaborators on a page, for every page over ElementIds
ConstructInit ==
    /\ OverlayInit
    /\ host = CHOOSE h \in Hosts : h.name = "layout"
    /\ TelemetryIdle
    /\ document \in [ ElementIds -> ElementKinds ]
    /\ PageIdle
    /\ CollaboratorsIdle

ConstructNext ==
    \/ \E containerId \in ElementIds : NewRenderer(containerId)
    \/ \E videoId \in ElementIds : NewFMP4Receiver(videoId)
    \/ \E isString \in BOOLEAN, id \in ElementIds : NewVideoController(isString, id)

SpecConstruct == ConstructInit /\ [][ConstructNext]_vars

(***************************************************************************)
(* Properties.                                                             *)
(***************************************************************************)
Cards == { meshes[rankings[i]] : i \in 1..Len(rankings) }

\* the card showRank added last
NewestCard == meshes[rankings[Len(rankings)]]

\* C1: every card of the rankings set has
\* z = laneIndex*laneWidth - laneCount*laneWidth/2 + laneWidth/2 for the
\* current laneCount and laneWidth, in every reachable state (so also right
\* after configureTrack returns).
C1_CardZFollowsTrack ==
    \A c \in Cards :
        c.z = (c.laneIndex * laneWidth) - ((laneCount * laneWidth) \div 2)
              + (laneWidth \div 2)

\* C1 witness: configureTrack has narrowed the track to 3 lanes of 0.7 m
\* around a card on lane 3, which only the 8-lane track could accept.
C1_Witness ==
    /\ laneCount = 3
    /\ laneWidth = 700
    /\ \E c \in Cards : c.laneIndex = 3 /\ c.z = 1400

\* C2: right after clearRankings returns the rankings set is empty and no
\* task of the animation set targets a removed (disposed) card.
C2_ClearLeavesNoTasks ==
    [][ ClearRankings =>
            /\ Len(rankings') = 0
            /\ \A i \in 1..Len(animations') :
                   ~meshes'[animations'[i].mesh].disposed ]_vars

\* C3: in every reachable state all cards of the rankings set have the same
\* rotation, and it is the rotation setCardOrientation gives for the stored
\* orientation.
C3_CardsShareRotation ==
    /\ \A c, d \in Cards : c.rotX = d.rotX /\ c.rotY = d.rotY
    /\ \A c \in Cards :
           /\ c.rotX = (IF cardOrientation = "flat" THEN -1 ELSE 0)
           /\ c.rotY = (IF cardOrientation = "flat" THEN 0 ELSE -1)

\* C4: a showRank call with laneIndex < 0 or laneIndex >= laneCount changes
\* nothing of the compositor: cards, tasks, track, offset, style, orientation
\* and reveal mode keep their values.
C4_OutOfRangeShowRankIsNoOp ==
    [][ \A li \in LaneInputs, img \in BOOLEAN :
            ((li < 0 \/ li >= laneCount) /\ ShowRank(li, img))
                => UNCHANGED overlayVars ]_vars

\* C4 witness: a card is placed, its task is in flight, and the host calls
\* showRank with laneIndex = laneCount; the call returns in this same state.
C4_Witness ==
    /\ Len(rankings) = 1
    /\ Len(animations) = 1
    /\ laneCount \in host.laneIndices
    /\ ENABLED (ShowRank(laneCount, FALSE) /\ UNCHANGED overlayVars)

\* C5: with reveal mode static an in-range showRank adds exactly one card,
\* registers no task, and the card is at rest at once: opacity 1, scale 1,
\* y = 0.02, x = offset, z from the lane formula.
C5_StaticShowRankIsImmediate ==
    [][ \A li \in LaneInputs, img \in BOOLEAN :
            (li >= 0 /\ li < laneCount /\ revealEffect = "static"
                     /\ ShowRank(li, img))
                => /\ Len(rankings') = Len(rankings) + 1
                   /\ SubSeq(rankings', 1, Len(rankings)) = rankings
                   /\ rankings'[Len(rankings')] \notin SeqToSet(rankings)
                   /\ animations' = animations
                   /\ LET c == meshes'[rankings'[Len(rankings')]]
                      IN /\ c.opacity = 1000
                         /\ c.scale = 1000
                         /\ c.y = 20
                         /\ c.x = cardOffsetX
                         /\ c.z = (li * laneWidth) - ((laneCount * laneWidth) \div 2)
                                  + (laneWidth \div 2)
                         /\ c.laneIndex = li ]_vars

\* C5 witness: two cards placed by static showRank calls (the host knows no
\* other reveal mode), at rest at offset 1.5 m with no task registered.
C5_Witness ==
    /\ host.effects = {"static"}
    /\ revealEffect = "static"
    /\ animations = << >>
    /\ cardOffsetX = 1500
    /\ Len(rankings) = 2
    /\ NewestCard.opacity = 1000 /\ NewestCard.y = 20 /\ NewestCard.x = 1500

\* C6: a card shown with reveal mode fade has opacity 0 after showRank; a tick
\* at time now writes 1 - (1 - p)^3 with p = (now - startTime)/1000, which is 0
\* at now = startTime, and exactly 1 from the first tick with
\* now >= startTime + 1000 on.
C6_FadeOpacityTimeline ==
    [][ /\ \A li \in LaneInputs, img \in BOOLEAN :
               (li >= 0 /\ li < laneCount /\ revealEffect = "fade"
                        /\ ShowRank(li, img))
                   => meshes'[rankings'[Len(rankings')]].opacity = 0
        /\ (now' = now /\ rankings' = rankings /\ Update) =>
               \A i \in 1..Len(animations) :
                   animations[i].type = "fade" =>
                       LET e == now - animations[i].startTime
                           o == meshes'[animations[i].mesh].opacity
                       IN /\ e = 0 => o = 0
                          /\ e >= 1000 => o = 1000
                          /\ e < 1000 => o = 1000 - (((1000 - e) ^ 3) \div 1000000)
        /\ \A id \in DOMAIN meshes' :
               ~(\E i \in 1..Len(animations') :
                     animations'[i].mesh = id /\ animations'[i].type = "fade")
                   => meshes'[id].opacity = 1000 ]_vars

\* C6 witness: a tick has written an opacity strictly between 0 and 1 on a
\* fading card, part-way through its 1000 ms.
C6_Witness ==
    /\ animations # << >>
    /\ \E i \in 1..Len(animations) :
           /\ animations[i].type = "fade"
           /\ now > animations[i].startTime
           /\ now < animations[i].startTime + 1000
           /\ meshes[animations[i].mesh].opacity > 0
           /\ meshes[animations[i].mesh].opacity < 1000

\* C7: for each non-static reveal mode an in-range showRank seeds the new card
\* at the start value (fade: opacity 0; slide: y = -5; scale: scale 0) and
\* registers exactly one task of that kind on that card, with duration 1000,
\* 800 or 600 ms, start value the seeded value and end value the resting value.
C7_RevealSeedsAndRegistersOneTask ==
    [][ \A li \in LaneInputs, img \in BOOLEAN :
            (li >= 0 /\ li < laneCount /\ revealEffect # "static"
                     /\ ShowRank(li, img))
                => LET id == rankings'[Len(rankings')]
                       c  == meshes'[id]
                       t  == animations'[Len(animations')]
                   IN /\ Len(animations') = Len(animations) + 1
                      /\ SubSeq(animations', 1, Len(animations)) = animations
                      /\ id \notin SeqToSet(rankings)
                      /\ t.mesh = id
                      /\ t.type = revealEffect
                      /\ t.startTime = now
                      /\ revealEffect = "fade" =>
                             /\ c.opacity = 0 /\ c.y = 20 /\ c.scale = 1000
                             /\ t.duration = 1000
                             /\ t.startProp = 0 /\ t.endProp = 1000
                      /\ revealEffect = "slide" =>
                             /\ c.y = -5000 /\ c.opacity = 1000 /\ c.scale = 1000
                             /\ t.duration = 800
                             /\ t.startProp = -5000 /\ t.endProp = 20
                      /\ revealEffect = "scale" =>
                             /\ c.scale = 0 /\ c.opacity = 1000 /\ c.y = 20
                             /\ t.duration = 600
                             /\ t.startProp = 0 /\ t.endProp = 1000 ]_vars

\* C7 witness: showRank under reveal mode scale has just added a second card,
\* seeded at scale 0, behind a card whose slide is still registered.
C7_Witness ==
    /\ revealEffect = "scale"
    /\ Len(rankings) = 2
    /\ Len(animations) = 2
    /\ animations[1].type = "slide"
    /\ animations[2].type = "scale"
    /\ animations[2].mesh = rankings[2]
    /\ animations[2].startTime = now
    /\ NewestCard.scale = 0

\* C8: setCardStyle and setRevealEffect change nothing of a card already
\* placed: every part of its panel, the image region drawn when its image
\* decode completes included, is drawn with the style current at its creation.
C8_ImageRegionKeepsCreationStyle ==
    \A id \in DOMAIN meshes :
        meshes[id].image = "drawn" =>
            meshes[id].imageClip =
                (IF meshes[id].panelStyle = "modern" THEN "rounded" ELSE "square")

\* C9: in every reachable state every card's x equals the stored offset.
C9_CardXIsOffset ==
    \A c \in Cards : c.x = cardOffsetX

\* C9 witness: a card in mid-slide was repositioned at offset 1.5 m after it
\* was shown (its y is back at rest while its slide task is in flight), and
\* the offset was set to 1.5 m.
C9_Witness ==
    /\ cardOffsetX = 1500
    /\ Len(rankings) = 1
    /\ Len(animations) = 1
    /\ animations[1].type = "slide"
    /\ animations[1].mesh = rankings[1]
    /\ now < animations[1].startTime + 800
    /\ NewestCard.y = 20
    /\ NewestCard.x = 1500

\* C10: in every reachable state every card's panel is
\* laneSpan = max(0.5, laneWidth - 0.3) across the lane and 4 * laneSpan along
\* the track, for the current laneWidth.
C10_CardSizeFollowsLaneWidth ==
    \A c \in Cards :
        /\ c.geomH = (IF laneWidth - 300 > 500 THEN laneWidth - 300 ELSE 500)
        /\ c.geomW = 4 * c.geomH

\* C10 witness: configureTrack has narrowed the lanes to 0.7 m around a card
\* built for the 1.22 m lanes of the 8-lane track; the card is now 0.5 by 2.
C10_Witness ==
    /\ laneWidth = 700
    /\ laneCount = 3
    /\ \E c \in Cards : c.laneIndex = 3 /\ c.geomH = 500 /\ c.geomW = 2000

\* the property a task of this type animates, read from a mesh
AnimatedProp(mesh, type) ==
    CASE type = "fade"  -> mesh.opacity
      [] type = "slide" -> mesh.y
      [] type = "scale" -> mesh.scale

\* the tasks of a sequence, as a set
TaskSet(anims) == { anims[i] : i \in 1..Len(anims) }

C12_CardLaneWithinTrack ==
    \A c \in Cards : c.laneIndex >= 0 /\ c.laneIndex < laneCount

C17_TickDropsTasksOfRemovedCards ==
    [][ (now' = now /\ rankings' = rankings /\ Update) =>
            \A i \in 1..Len(animations) :
                LET a == animations[i]
                IN meshes[a.mesh].disposed =>
                       /\ meshes'[a.mesh] = meshes[a.mesh]
                       /\ a \notin TaskSet(animations') ]_vars

\* C18: on every tick, for every active task, the progress used for easing is
\* in [0, 1], the eased value is in [0, 1], and the value written is between
\* the task's start and end values.
C18_ProgressAndValueInRange ==
    [][ (now' = now /\ rankings' = rankings /\ Update) =>
            \A i \in 1..Len(animations) :
                LET a == animations[i]
                    p == Progress(now - a.startTime, a.duration)
                    e == Eased(p)
                    v == AnimatedProp(meshes'[a.mesh], a.type)
                IN /\ now >= a.startTime
                   /\ p >= 0 /\ p <= 1000
                   /\ e >= 0 /\ e <= 1000
                   /\ v >= a.startProp /\ v <= a.endProp ]_vars

\* C18 witness: a tick at 1000 ms has completed a slide of 800 ms (elapsed /
\* duration above 1 before the clamp) and left its card at the end value.
C18_Witness ==
    /\ now = 1000
    /\ \E j \in 1..Len(rankings) :
           /\ meshes[rankings[j]].shownWith = "slide"
           /\ meshes[rankings[j]].y = 20
           /\ \A i \in 1..Len(animations) : animations[i].mesh # rankings[j]

\* C20: in every reachable state each mesh is the target of at most one task,
\* and the kind of every task is the reveal mode its card was shown with.
C20_OneTaskPerCardOfItsKind ==
    /\ \A id \in DOMAIN meshes :
           Cardinality({ i \in 1..Len(animations) : animations[i].mesh = id }) <= 1
    /\ \A i \in 1..Len(animations) :
           /\ animations[i].mesh \in DOMAIN meshes
           /\ animations[i].type = meshes[animations[i].mesh].shownWith

\* C20 witness: a fade and a slide are in flight on two cards while the stored
\* reveal mode has since been changed to scale.
C20_Witness ==
    /\ Len(animations) = 2
    /\ Len(rankings) = 2
    /\ animations[1].type = "fade" /\ animations[1].mesh = rankings[1]
    /\ animations[2].type = "slide" /\ animations[2].mesh = rankings[2]
    /\ revealEffect = "scale"

C15_BufferSortedByTimestamp == IsSorted(buffer)

\* C15 witness: more samples were pushed than the buffer holds, the buffer is
\* full, and the sample at its end is not the one pushed last, so some push
\* was out of order and some push evicted.
C15_Witness ==
    /\ maxSize >= 2
    /\ Len(buffer) = maxSize
    /\ pushCount > maxSize
    /\ buffer[Len(buffer)].id < buffer[1].id
    /\ buffer[1].timestampMs < buffer[Len(buffer)].timestampMs

\* a constructor call that threw: nothing was returned and nothing was started
ConstructionFailed ==
    /\ thrown'
    /\ built' = built
    /\ frameRequests' = frameRequests
    /\ resizeListeners' = resizeListeners
    /\ canvases' = canvases
    /\ mediaSources' = mediaSources

\* C13: new Renderer(id) throws when no element has the id; new FMP4Receiver(id)
\* and new VideoController(id) throw when the id names no element or one that
\* is not a video element; in each case no object is returned and no render
\* loop, media source, canvas or listener has been started.
C13_MissingElementFailsConstruction ==
    [][ \A id \in ElementIds :
            /\ (document[id] = "none" /\ NewRenderer(id)) => ConstructionFailed
            /\ (document[id] # "video" /\ NewFMP4Receiver(id)) => ConstructionFailed
            /\ (document[id] # "video" /\ NewVideoController(TRUE, id))
                   => ConstructionFailed ]_vars

\* C13 witness: on a page where every id names an element and one of them is
\* not a video, a constructor has thrown after a Renderer was built: the throw
\* came from a video constructor given the id of a non-video element, and the
\* only loop, canvas and listener are the Renderer's.
C13_Witness ==
    /\ thrown
    /\ \A id \in ElementIds : document[id] # "none"
    /\ \E id \in ElementIds : document[id] = "div"
    /\ Len(built) = 1
    /\ built[1].class = "Renderer"
    /\ frameRequests = 1
    /\ resizeListeners = 1
    /\ mediaSources = << >>

\* C19: under fair frame ticks and an advancing clock the active set
\* eventually becomes and stays empty; a tick with now >= s + d leaves the
\* task registered at s with duration d out of the set, and no step removes a
\* task while now < s + d.
C19_TasksEventuallyRemoved ==
    /\ <>[](animations = << >>)
    /\ [][ /\ (now' = now /\ rankings' = rankings /\ Update) =>
                  \A i \in 1..Len(animations) :
                      now >= animations[i].startTime + animations[i].duration
                          => animations[i] \notin TaskSet(animations')
           /\ \A i \in 1..Len(animations) :
                  now < animations[i].startTime + animations[i].duration
                      => animations[i] \in TaskSet(animations') ]_vars

\* C19 witness: a fade registered at the last showRank time has run its full
\* 1000 ms and its task is gone: the set is empty again at the horizon.
C19_Witness ==
    /\ animations = << >>
    /\ now >= MaxClockSteps * ClockStep + FadeDuration
    /\ Len(rankings) >= 1
    /\ NewestCard.shownWith = "fade"
    /\ NewestCard.opacity = 1000
    /\ \E i \in 1..Len(rankings) : meshes[rankings[i]].shownWith = "scale"

\* C21: an image decode that completes after clearRankings has removed its
\* card draws nothing on that card's texture and does not flag it for update.
C21_OnloadSkipsRemovedCards ==
    [][ \A id \in DOMAIN meshes :
            (meshes[id].disposed /\ ImageOnload(id)) => meshes'[id] = meshes[id] ]_vars

\* C22: in every reachable state (after construction and after every
\* configureTrack) there are exactly laneCount + 1 lane lines, line i at
\* z = i*laneWidth - laneCount*laneWidth/2 from x = -trackLength/2 to
\* trackLength/2, and the card set holds exactly the cards shown and not
\* cleared, in the order shown.
C22_LaneLinesFollowTrack ==
    /\ Len(lanes) = laneCount + 1
    /\ \A i \in 0..laneCount :
           /\ lanes[i + 1].z = (i * laneWidth) - ((laneCount * laneWidth) \div 2)
           /\ lanes[i + 1].x0 = -(trackLength \div 2)
           /\ lanes[i + 1].x1 = trackLength \div 2
    /\ SeqToSet(rankings) = { id \in DOMAIN meshes : ~meshes[id].disposed }
    /\ \A i \in 1..Len(rankings), j \in 1..Len(rankings) :
           i < j => rankings[i] < rankings[j]

\* C22 witness: the track was narrowed from 8 lanes to 3 while two cards were
\* shown: 4 lines, the first at -1.05 m, and both cards still in the set.
C22_Witness ==
    /\ laneCount = 3
    /\ Len(lanes) = 4
    /\ lanes[1].z = -1050
    /\ lanes[4].x1 = 30000
    /\ Len(rankings) = 2
    /\ \E c \in Cards : c.laneIndex = DefaultLaneCount - 1 \/ c.laneIndex = 3

\* C23: at most one frame request is outstanding in every reachable state, and
\* no frame runs the onUpdate callbacks more than once.
C23_OneRequestOneCallbackRun ==
    /\ Cardinality(requests) <= 1
    /\ callbackRuns <= 1

\* C24: whenever the loop is stopped (animationId is null, as it is when stop()
\* returns and until start() runs animate again) no frame request is
\* outstanding, so no frame can begin and run the onUpdate callbacks; while it
\* runs, the one outstanding request is the one animationId names.
C24_StoppedLoopHasNoRequest ==
    /\ animationId = 0 => requests = {}
    /\ animationId # 0 => requests = { animationId }

\* C24 witness: a frame has run the callbacks once, requesting the next frame,
\* and the loop is stopped since: the request of that frame is cancelled.
C24_Witness ==
    /\ animationId = 0
    /\ requests = {}
    /\ requestCount = 2
    /\ callbackRuns = 1
    /\ ~destroyed

\* C25: after destroy() has returned the window has no resize listener of the
\* renderer left.
C25_DestroyRemovesResizeListener ==
    destroyed => resizeListeners = 0

\* C26: the arguments of the appendBuffer calls are segments that were pushed,
\* in push order, none of them twice, whatever the interleaving of push,
\* sourceopen, updateend, append failures and destroy.
C26_AppendsFollowPushOrder ==
    /\ \A i \in 1..Len(appendCalls) :
           appendCalls[i] >= 1 /\ appendCalls[i] <= segmentCount
    /\ \A i \in 1..Len(appendCalls), j \in 1..Len(appendCalls) :
           i < j => appendCalls[i] < appendCalls[j]

\* C26 witness: segments 1 and 3 were handed over and segment 2 was not (it was
\* in the queue when destroy emptied it).
C26_Witness ==
    /\ appendCalls = <<1, 3>>
    /\ receiverDestroyed
    /\ queue = << >>

\* C27: every step that calls appendBuffer starts with the source buffer in
\* existence and not updating, and makes one call only.
C27_AppendOnlyWhenBufferIdle ==
    [][ appendCalls' # appendCalls =>
            /\ sourceBuffer # "none"
            /\ (sourceBuffer = "updating" => (\E throws \in BOOLEAN : UpdateEnd(throws)))
            /\ Len(appendCalls') = Len(appendCalls) + 1 ]_vars

\* C27 witness: an append is in flight and a segment pushed meanwhile is held
\* in the queue.
C27_Witness ==
    /\ sourceBuffer = "updating"
    /\ appendCalls = <<1>>
    /\ queue = <<2>>

\* C28: when the media source is open, the source buffer exists, no append is
\* in flight and destroy was not called, no segment is left in the queue:
\* nothing but a further push would hand a segment left there to appendBuffer.
C28_NoSegmentLeftWaiting ==
    (~receiverDestroyed /\ readyState = "open" /\ sourceBuffer = "idle")
        => queue = << >>

\* C29: every non-empty chunk a session's recorder has emitted was delivered
\* to the onData callback given to that session's start(), the chunk emitted
\* after stop() included.
C29_EveryChunkReachesItsCallback ==
    \A c \in dispatched :
        c.size > 0 => [ chunk |-> c.chunk, callback |-> c.session ] \in delivered

\* C30: after any seek and step calls, negative frame counts included, the
\* video's currentTime is at least 0, and at most the duration once the
\* element has one.
C30_CurrentTimeWithinMedia ==
    /\ currentTime >= 0
    /\ videoLoaded => currentTime <= VideoDuration

====
